---- MODULE Spec2Model ----
(***************************************************************************)
(* Model of generate_posts.py: slugify, fetch_best_sellers,                *)
(* generate_post_html, build_site and main.                                *)
(*                                                                         *)
(* A Python str is a sequence of one-character strings, so that slugify,   *)
(* the file names and the titles are computed character by character.     *)
(* The docs directory is a function from file name to file content; a     *)
(* file that does not exist is not in its domain.                          *)
(***************************************************************************)
EXTENDS Integers, Sequences, FiniteSets, TLC

VARIABLES
    installed,       \* the packages the interpreter can import: [requests, bs4 : BOOLEAN]
    requests,        \* module global: TRUE = the imported module, FALSE = None
    BeautifulSoup,   \* module global: TRUE = the imported class, FALSE = None
    pc,              \* position of the running code
    caller,          \* what is run: "main" the script, "fetch" fetch_best_sellers alone, "build" build_site alone, "slugify" slugify alone
    max_items,       \* fetch_best_sellers: parameter
    gets,            \* number of requests.get calls issued by the current fetch_best_sellers call
    response,        \* fetch_best_sellers: local response (ok: a success status; content: the page)
    soup,            \* fetch_best_sellers: the parsed document (per selector, the matched elements' texts)
    names,           \* fetch_best_sellers: local list / return value; main: local names
    err,             \* exception raised by fetch_best_sellers ("none" when none)
    product_names,   \* build_site: parameter
    build_calls,     \* number of build_site calls of the current process
    docs_exists,     \* whether the directory docs exists
    fs,              \* the files of docs: file name -> content
    today,           \* build_site: local today
    posts_info,      \* build_site: local posts_info
    pos,             \* build_site: index of the next product of the for loop
    uncaught,        \* exception that ended the process ("none" when none)
    fs0,             \* fs when the current build_site call started
    prev_ok,         \* the preceding process completed build_site and docs was not edited since
    prev_names,      \* product_names of the preceding process
    prev_today,      \* today of the preceding process
    runs,            \* number of processes started
    edits,           \* number of manual edits of docs
    text,            \* slugify called alone: its argument
    slug_out         \* slugify called alone: its return value

vars == <<installed, requests, BeautifulSoup, pc, caller, max_items, gets, response, soup, names, err,
          product_names, build_calls, docs_exists, fs, today, posts_info, pos,
          uncaught, fs0, prev_ok, prev_names, prev_today, runs, edits, text, slug_out>>

-----------------------------------------------------------------------------
(* Bounds *)

MaxRuns == 2        \* processes started one after the other on the same docs directory
MaxEdits == 1       \* manual edits of docs between the runs
MaxElems == 2       \* elements one selector matches (fetch_best_sellers called alone)
MaxItemsArg == 3    \* largest max_items tried when fetch_best_sellers is called alone
MaxLen == 3         \* length of the text given to slugify called alone

-----------------------------------------------------------------------------
(* Characters and strings *)

Digits == {"0", "1", "2", "3", "4", "5", "6", "7", "8", "9"}

LowerLetters == {"a", "b", "c", "d", "e", "f", "g", "h", "i", "j", "k", "l", "m",
                 "n", "o", "p", "q", "r", "s", "t", "u", "v", "w", "x", "y", "z"}

ToLower == [A |-> "a", B |-> "b", C |-> "c", D |-> "d", E |-> "e", F |-> "f",
            G |-> "g", H |-> "h", I |-> "i", J |-> "j", K |-> "k", L |-> "l",
            M |-> "m", N |-> "n", O |-> "o", P |-> "p", Q |-> "q", R |-> "r",
            S |-> "s", T |-> "t", U |-> "u", V |-> "v", W |-> "w", X |-> "x",
            Y |-> "y", Z |-> "z"]

\* str.lower() on one character
LowerChar(c) == IF c \in DOMAIN ToLower THEN ToLower[c] ELSE c

\* str.lower()
Lower(s) == [k \in 1..Len(s) |-> LowerChar(s[k])]

\* the character class [a-z0-9]
IsSlugChar(c) == c \in LowerLetters \cup Digits

\* the sequences over S of length at most n
SeqsUpTo(S, n) == UNION {[1..k -> S] : k \in 0..n}

\* the elements of a sequence
Range(s) == {s[k] : k \in 1..Len(s)}

-----------------------------------------------------------------------------
(* slugify *)

\* s without its leading run of characters outside [a-z0-9]
RECURSIVE SkipRun(_)
SkipRun(s) ==
    IF s = <<>> \/ IsSlugChar(Head(s)) THEN s ELSE SkipRun(Tail(s))

\* re.sub(r'[^a-z0-9]+', '-', s): left to right, each maximal match replaced
RECURSIVE ReSub(_)
ReSub(s) ==
    IF s = <<>> THEN <<>>
    ELSE IF IsSlugChar(Head(s)) THEN <<Head(s)>> \o ReSub(Tail(s))
    ELSE <<"-">> \o ReSub(SkipRun(s))

\* str.lstrip('-')
RECURSIVE LStrip(_)
LStrip(s) == IF s # <<>> /\ Head(s) = "-" THEN LStrip(Tail(s)) ELSE s

\* str.rstrip('-')
RECURSIVE RStrip(_)
RStrip(s) ==
    IF s # <<>> /\ s[Len(s)] = "-" THEN RStrip(SubSeq(s, 1, Len(s) - 1)) ELSE s

\* str.strip('-')
Strip(s) == RStrip(LStrip(s))

\* slugify without the final strip('-')
slugify_no_strip(t) == ReSub(Lower(t))

slugify(t) == Strip(ReSub(Lower(t)))

-----------------------------------------------------------------------------
(* String literals of the script *)

DotHtml == <<".", "h", "t", "m", "l">>

ReviewSuffix == <<" ", "R", "e", "v", "i", "e", "w">>

style_path == <<"s", "t", "y", "l", "e", "s", ".", "c", "s", "s">>

index_path == <<"i", "n", "d", "e", "x", ".", "h", "t", "m", "l">>

SamplePrefix == <<"S", "a", "m", "p", "l", "e", " ", "P", "r", "o", "d", "u", "c", "t", " ">>

\* the list main falls back to
SampleProducts == <<SamplePrefix \o <<"A">>, SamplePrefix \o <<"B">>, SamplePrefix \o <<"C">>>>

\* the selectors list of fetch_best_sellers, in its order
selectors == <<"div.p13n-sc-uncoverable-faceout a.a-link-normal div.p13n-sc-truncate",
               "span.zg-text-center-align div.a-section a.a-link-normal",
               "span.aok-inline-block a.a-link-normal">>

-----------------------------------------------------------------------------
(* Inputs *)

\* values of datetime.utcnow().strftime('%Y-%m-%d'), in the order of time
DateSeq == <<"2024-05-01", "2024-05-02">>

Dates == Range(DateSeq)

\* today before build_site computes it
NoDate == ""

\* the dates the clock can show when it showed date p before
DatesFrom(p) ==
    IF p = NoDate THEN Dates
    ELSE {DateSeq[k] : k \in {j \in 1..Len(DateSeq) : \E i \in 1..j : DateSeq[i] = p}}

\* element texts of the pages served to the script
MainTexts == {<<"I", "n", "d", "e", "x">>, <<"a">>}

\* product lists given to build_site called alone: the empty list, one
\* product, a product whose slug is empty, a product listed twice, two
\* products with the same slug "a", a product with the slug "index", two
\* products with the slug "index"
BuildLists == {<<>>,
               <<<<"a">>>>,
               <<<<"!">>>>,
               <<<<"a">>, <<"a">>>>,
               <<<<"a">>, <<"A", "!">>>>,
               <<<<"I", "n", "d", "e", "x">>>>,
               <<<<"I", "n", "d", "e", "x">>, <<"i", "n", "d", "e", "x", "!">>>>,
               <<<<"A", "!">>, <<"I", "n", "d", "e", "x">>>>}

\* element texts of the pages served when fetch_best_sellers is called alone
\* (<<>> is an element whose stripped text is empty)
DirectTexts == {<<>>, <<"a">>, <<"b">>}

\* a page: for each selector, the stripped texts of the elements it matches, in document order
MainPages == [Range(selectors) -> {<<>>} \cup {<<t>> : t \in MainTexts}]

DirectPages == [Range(selectors) -> SeqsUpTo(DirectTexts, MaxElems)]

PagesFor(c) == IF c = "main" THEN MainPages ELSE DirectPages

NoPage == [s \in Range(selectors) |-> <<>>]

NoResponse == [ok |-> FALSE, content |-> NoPage]

\* texts given to slugify called alone
SlugAlphabet == {"A", "b", "1", " ", "-", "!"}

SlugTexts == SeqsUpTo(SlugAlphabet, MaxLen) \cup {SamplePrefix \o <<"A", "!">>}

-----------------------------------------------------------------------------
(* fetch_best_sellers: the selector loops *)

\* the inner loop without the test "text not in names"
RECURSIVE ScanElemsNoDedup(_, _, _)
ScanElemsNoDedup(elems, acc, max) ==
    IF elems = <<>> THEN acc
    ELSE LET t == Head(elems)
             acc1 == IF t # <<>> THEN Append(acc, t) ELSE acc
         IN  IF Len(acc1) >= max THEN acc1
             ELSE ScanElemsNoDedup(Tail(elems), acc1, max)

\* the inner for loop over the elements of one selector, from names = acc
RECURSIVE ScanElems(_, _, _)
ScanElems(elems, acc, max) ==
    IF elems = <<>> THEN acc
    ELSE LET t == Head(elems)
             acc1 == IF t # <<>> /\ t \notin Range(acc) THEN Append(acc, t) ELSE acc
         IN  IF Len(acc1) >= max THEN acc1
             ELSE ScanElems(Tail(elems), acc1, max)

\* the outer for loop over the selectors, from names = acc
RECURSIVE ScanSelectors(_, _, _, _)
ScanSelectors(sels, page, acc, max) ==
    IF sels = <<>> THEN acc
    ELSE LET acc1 == ScanElems(page[Head(sels)], acc, max)
         IN  IF Len(acc1) >= max THEN acc1
             ELSE ScanSelectors(Tail(sels), page, acc1, max)

-----------------------------------------------------------------------------
(* generate_post_html and the contents of the files *)

\* str.split('-')
RECURSIVE Split(_, _)
Split(s, cur) ==
    IF s = <<>> THEN <<cur>>
    ELSE IF Head(s) = "-" THEN <<cur>> \o Split(Tail(s), <<>>)
    ELSE Split(Tail(s), Append(cur, Head(s)))

\* '+'.join(parts)
RECURSIVE Join(_)
Join(parts) ==
    IF Len(parts) = 1 THEN parts[1]
    ELSE parts[1] \o <<"+">> \o Join(Tail(parts))

generate_post_html(title, date_str, product_name, slug) ==
    [kind |-> "post", title |-> title, date |-> date_str,
     product_name |-> product_name, keywords |-> Join(Split(slug, <<>>))]

\* the text build_site writes to styles.css
CssContent == [kind |-> "css"]

\* the text build_site writes to index.html: one <li> per element of posts_info
IndexContent(info) ==
    [kind |-> "index",
     items |-> [k \in 1..Len(info) |->
                  [href |-> info[k][2] \o DotHtml,
                   label |-> info[k][1] \o ReviewSuffix,
                   date |-> info[k][3]]]]

\* a file written by hand
Custom == [kind |-> "custom"]

\* a file whose write failed after open() truncated or created it
Partial == [kind |-> "partial"]

\* open(path, 'w') ... write(content)
WriteFile(files, path, content) ==
    [f \in DOMAIN files \cup {path} |-> IF f = path THEN content ELSE files[f]]

\* os.path.exists
Exists(files, path) == path \in DOMAIN files

EmptyDir == [f \in {} |-> Custom]

-----------------------------------------------------------------------------
(* Module import (lines 5-10) *)

\* the value of both module globals after the try/except ImportError
ImportGuard(has_requests, has_bs4) == has_requests /\ has_bs4

-----------------------------------------------------------------------------
(* fetch_best_sellers *)

\* the dependency check placed after the request
FetchImportErrorAfterGet ==
    /\ pc = "fetch"
    /\ ~requests \/ ~BeautifulSoup
    /\ gets' = gets + 1
    /\ err' = "ImportError"
    /\ pc' = "raised"
    /\ UNCHANGED <<installed, requests, BeautifulSoup, caller, max_items, response, soup,
                   names, product_names, build_calls, docs_exists, fs, today,
                   posts_info, pos, uncaught, fs0, prev_ok, prev_names, prev_today,
                   runs, edits, text, slug_out>>

\* lines 23-24: a dependency is missing
FetchImportError ==
    /\ pc = "fetch"
    /\ ~requests \/ ~BeautifulSoup
    /\ err' = "ImportError"
    /\ pc' = "raised"
    /\ UNCHANGED <<installed, requests, BeautifulSoup, caller, max_items, gets, response, soup,
                   names, product_names, build_calls, docs_exists, fs, today,
                   posts_info, pos, uncaught, fs0, prev_ok, prev_names, prev_today,
                   runs, edits, text, slug_out>>

\* line 30: requests.get raises (connection error, timeout)
FetchGetRaises ==
    /\ pc = "fetch"
    /\ requests /\ BeautifulSoup
    /\ gets' = gets + 1
    /\ err' = "RequestException"
    /\ pc' = "raised"
    /\ UNCHANGED <<installed, requests, BeautifulSoup, caller, max_items, response, soup,
                   names, product_names, build_calls, docs_exists, fs, today,
                   posts_info, pos, uncaught, fs0, prev_ok, prev_names, prev_today,
                   runs, edits, text, slug_out>>

\* line 30: requests.get returns a response
FetchGetResponds ==
    /\ pc = "fetch"
    /\ requests /\ BeautifulSoup
    /\ gets' = gets + 1
    /\ \/ \E page \in PagesFor(caller) : response' = [ok |-> TRUE, content |-> page]
       \/ response' = [ok |-> FALSE, content |-> NoPage]
    /\ pc' = "raise_for_status"
    /\ UNCHANGED <<installed, requests, BeautifulSoup, caller, max_items, soup, names, err,
                   product_names, build_calls, docs_exists, fs, today,
                   posts_info, pos, uncaught, fs0, prev_ok, prev_names, prev_today,
                   runs, edits, text, slug_out>>

\* line 31: the status is not a success
FetchHTTPError ==
    /\ pc = "raise_for_status"
    /\ ~response.ok
    /\ err' = "HTTPError"
    /\ pc' = "raised"
    /\ UNCHANGED <<installed, requests, BeautifulSoup, caller, max_items, gets, response, soup,
                   names, product_names, build_calls, docs_exists, fs, today,
                   posts_info, pos, uncaught, fs0, prev_ok, prev_names, prev_today,
                   runs, edits, text, slug_out>>

\* lines 31-33: the status is a success, the body is parsed
FetchParse ==
    /\ pc = "raise_for_status"
    /\ response.ok
    /\ soup' = response.content
    /\ names' = <<>>
    /\ pc' = "select"
    /\ UNCHANGED <<installed, requests, BeautifulSoup, caller, max_items, gets, response, err,
                   product_names, build_calls, docs_exists, fs, today,
                   posts_info, pos, uncaught, fs0, prev_ok, prev_names, prev_today,
                   runs, edits, text, slug_out>>

\* lines 32-47: parsing or selecting raises
FetchParseError ==
    /\ pc = "raise_for_status"
    /\ response.ok
    /\ err' = "Exception"
    /\ pc' = "raised"
    /\ UNCHANGED <<installed, requests, BeautifulSoup, caller, max_items, gets, response, soup,
                   names, product_names, build_calls, docs_exists, fs, today,
                   posts_info, pos, uncaught, fs0, prev_ok, prev_names, prev_today,
                   runs, edits, text, slug_out>>

\* lines 35-50: the selector loops and the return
FetchSelect ==
    /\ pc = "select"
    /\ names' = ScanSelectors(selectors, soup, names, max_items)
    /\ pc' = "returned"
    /\ UNCHANGED <<installed, requests, BeautifulSoup, caller, max_items, gets, response, soup,
                   err, product_names, build_calls, docs_exists, fs, today,
                   posts_info, pos, uncaught, fs0, prev_ok, prev_names, prev_today,
                   runs, edits, text, slug_out>>

-----------------------------------------------------------------------------
(* main *)

\* lines 134-135: the call of fetch_best_sellers
MainTry ==
    /\ pc = "main"
    /\ max_items' = 3
    /\ pc' = "fetch"
    /\ UNCHANGED <<installed, requests, BeautifulSoup, caller, gets, response, soup, names, err,
                   product_names, build_calls, docs_exists, fs, today,
                   posts_info, pos, uncaught, fs0, prev_ok, prev_names, prev_today,
                   runs, edits, text, slug_out>>

\* line 135: fetch_best_sellers returned, its locals are gone
MainFetched ==
    /\ pc = "returned"
    /\ caller = "main"
    /\ response' = NoResponse
    /\ soup' = NoPage
    /\ pc' = "call_build_site"
    /\ UNCHANGED <<installed, requests, BeautifulSoup, caller, max_items, gets, names, err,
                   product_names, build_calls, docs_exists, fs, today,
                   posts_info, pos, uncaught, fs0, prev_ok, prev_names, prev_today,
                   runs, edits, text, slug_out>>

\* the exception is not caught and ends the process
MainExceptPropagates ==
    /\ pc = "raised"
    /\ caller = "main"
    /\ uncaught' = err
    /\ pc' = "crashed"
    /\ UNCHANGED <<installed, requests, BeautifulSoup, caller, max_items, gets, response,
                   soup, names, err, product_names, build_calls, docs_exists, fs,
                   today, posts_info, pos, fs0, prev_ok, prev_names, prev_today,
                   runs, edits, text, slug_out>>

\* lines 136-141: the exception is caught
MainExcept ==
    /\ pc = "raised"
    /\ caller = "main"
    /\ names' = SampleProducts
    /\ response' = NoResponse
    /\ soup' = NoPage
    /\ pc' = "call_build_site"
    /\ UNCHANGED <<installed, requests, BeautifulSoup, caller, max_items, gets, err,
                   product_names, build_calls, docs_exists, fs, today,
                   posts_info, pos, uncaught, fs0, prev_ok, prev_names, prev_today,
                   runs, edits, text, slug_out>>

\* line 142: the call of build_site
MainBuildSite ==
    /\ pc = "call_build_site"
    /\ product_names' = names
    /\ build_calls' = build_calls + 1
    /\ fs0' = fs
    /\ pc' = "makedirs"
    /\ UNCHANGED <<installed, requests, BeautifulSoup, caller, max_items, gets, response, soup,
                   names, err, docs_exists, fs, today, posts_info, pos, uncaught,
                   prev_ok, prev_names, prev_today, runs, edits, text, slug_out>>

-----------------------------------------------------------------------------
(* build_site *)

\* lines 88-89
BuildMakedirs ==
    /\ pc = "makedirs"
    /\ docs_exists' = TRUE
    /\ pc' = "stylesheet"
    /\ UNCHANGED <<installed, requests, BeautifulSoup, caller, max_items, gets, response, soup,
                   names, err, product_names, build_calls, fs, today, posts_info,
                   pos, uncaught, fs0, prev_ok, prev_names, prev_today, runs, edits,
                   text, slug_out>>

\* the stylesheet written without the test os.path.exists
BuildStylesheetAlways ==
    /\ pc = "stylesheet"
    /\ fs' = WriteFile(fs, style_path, CssContent)
    /\ posts_info' = <<>>
    /\ today' \in DatesFrom(prev_today)
    /\ pos' = 1
    /\ pc' = "loop"
    /\ UNCHANGED <<installed, requests, BeautifulSoup, caller, max_items, gets, response, soup,
                   names, err, product_names, build_calls, docs_exists, uncaught,
                   fs0, prev_ok, prev_names, prev_today, runs, edits, text, slug_out>>

\* lines 90-99: the stylesheet, posts_info and today
BuildStylesheet ==
    /\ pc = "stylesheet"
    /\ fs' = IF ~Exists(fs, style_path) THEN WriteFile(fs, style_path, CssContent) ELSE fs
    /\ posts_info' = <<>>
    /\ today' \in DatesFrom(prev_today)
    /\ pos' = 1
    /\ pc' = "loop"
    /\ UNCHANGED <<installed, requests, BeautifulSoup, caller, max_items, gets, response, soup,
                   names, err, product_names, build_calls, docs_exists, uncaught,
                   fs0, prev_ok, prev_names, prev_today, runs, edits, text, slug_out>>

\* the iteration with posts_info.append inside the if
BuildProductRecordsWritten ==
    /\ pc = "loop"
    /\ pos <= Len(product_names)
    /\ LET product == product_names[pos]
           slug == slugify(product)
           filepath == slug \o DotHtml
           title == product \o ReviewSuffix
       IN  IF ~Exists(fs, filepath)
           THEN /\ fs' = WriteFile(fs, filepath, generate_post_html(title, today, product, slug))
                /\ posts_info' = Append(posts_info, <<product, slug, today>>)
           ELSE UNCHANGED <<fs, posts_info>>
    /\ pos' = pos + 1
    /\ UNCHANGED <<installed, requests, BeautifulSoup, pc, caller, max_items, gets, response, soup,
                   names, err, product_names, build_calls, docs_exists, today,
                   uncaught, fs0, prev_ok, prev_names, prev_today, runs, edits,
                   text, slug_out>>

\* lines 100-110: one iteration of the for loop
BuildProduct ==
    /\ pc = "loop"
    /\ pos <= Len(product_names)
    /\ LET product == product_names[pos]
           slug == slugify(product)
           filepath == slug \o DotHtml
           title == product \o ReviewSuffix
       IN  /\ fs' = IF ~Exists(fs, filepath)
                    THEN WriteFile(fs, filepath, generate_post_html(title, today, product, slug))
                    ELSE fs
           /\ posts_info' = Append(posts_info, <<product, slug, today>>)
    /\ pos' = pos + 1
    /\ UNCHANGED <<installed, requests, BeautifulSoup, pc, caller, max_items, gets, response, soup,
                   names, err, product_names, build_calls, docs_exists, today,
                   uncaught, fs0, prev_ok, prev_names, prev_today, runs, edits,
                   text, slug_out>>

\* the index opened in append mode
BuildIndexAppends ==
    /\ pc = "loop"
    /\ pos > Len(product_names)
    /\ fs' = WriteFile(fs, index_path,
                IF Exists(fs, index_path) /\ fs[index_path].kind = "index"
                THEN [kind |-> "index",
                      items |-> fs[index_path].items \o IndexContent(posts_info).items]
                ELSE IndexContent(posts_info))
    /\ pc' = "done"
    /\ UNCHANGED <<installed, requests, BeautifulSoup, caller, max_items, gets, response, soup,
                   names, err, product_names, build_calls, docs_exists, today,
                   posts_info, pos, uncaught, fs0, prev_ok, prev_names, prev_today,
                   runs, edits, text, slug_out>>

\* lines 111-130: the index, and the return to main, which ends
BuildIndex ==
    /\ pc = "loop"
    /\ pos > Len(product_names)
    /\ fs' = WriteFile(fs, index_path, IndexContent(posts_info))
    /\ pc' = "done"
    /\ UNCHANGED <<installed, requests, BeautifulSoup, caller, max_items, gets, response, soup,
                   names, err, product_names, build_calls, docs_exists, today,
                   posts_info, pos, uncaught, fs0, prev_ok, prev_names, prev_today,
                   runs, edits, text, slug_out>>

\* the file the statement at pc is about to write, if it writes one
WriteTargets ==
    IF pc = "stylesheet" THEN {style_path} \ DOMAIN fs
    ELSE IF pc = "loop" /\ pos <= Len(product_names)
         THEN {slugify(product_names[pos]) \o DotHtml} \ DOMAIN fs
    ELSE IF pc = "loop" THEN {index_path}
    ELSE {}

\* a filesystem call of build_site raises OSError, which nothing catches; a
\* write that fails after open() leaves the file created or truncated
BuildOSError ==
    /\ pc \in {"makedirs", "stylesheet", "loop"}
    /\ \/ fs' = fs
       \/ \E f \in WriteTargets : fs' = WriteFile(fs, f, Partial)
    /\ uncaught' = "OSError"
    /\ pc' = "crashed"
    /\ UNCHANGED <<installed, requests, BeautifulSoup, caller, max_items, gets, response, soup,
                   names, err, product_names, build_calls, docs_exists, today,
                   posts_info, pos, fs0, prev_ok, prev_names, prev_today, runs,
                   edits, text, slug_out>>

-----------------------------------------------------------------------------
(* The environment: the script is started again, docs is edited by hand *)

EditableFiles == {style_path, <<"a">> \o DotHtml}

\* a file of docs is created or replaced by hand while no process runs
EditFile ==
    /\ \/ caller = "main" /\ pc = "main"
       \/ caller = "build" /\ pc = "makedirs"
    /\ edits < MaxEdits
    /\ \E f \in EditableFiles : fs' = WriteFile(fs, f, Custom)
    /\ docs_exists' = TRUE
    /\ fs0' = fs'
    /\ edits' = edits + 1
    /\ prev_ok' = FALSE
    /\ UNCHANGED <<installed, requests, BeautifulSoup, pc, caller, max_items, gets, response, soup,
                   names, err, product_names, build_calls, today, posts_info, pos,
                   uncaught, prev_names, prev_today, runs, text, slug_out>>

\* the script is run again: a new process, the import guard, fresh locals
Rerun ==
    /\ caller = "main"
    /\ pc \in {"done", "crashed"}
    /\ runs < MaxRuns
    /\ installed' \in [requests : BOOLEAN, bs4 : BOOLEAN]
    /\ requests' = ImportGuard(installed'.requests, installed'.bs4)
    /\ BeautifulSoup' = ImportGuard(installed'.requests, installed'.bs4)
    /\ pc' = "main"
    /\ prev_ok' = (pc = "done")
    /\ prev_names' = product_names
    /\ prev_today' = IF today = NoDate THEN prev_today ELSE today
    /\ runs' = runs + 1
    /\ max_items' = 0
    /\ gets' = 0
    /\ response' = NoResponse
    /\ soup' = NoPage
    /\ names' = <<>>
    /\ err' = "none"
    /\ product_names' = <<>>
    /\ build_calls' = 0
    /\ posts_info' = <<>>
    /\ pos' = 0
    /\ uncaught' = "none"
    /\ fs0' = fs
    /\ today' = NoDate
    /\ UNCHANGED <<caller, docs_exists, fs, edits, text, slug_out>>

\* build_site is called again with any list
BuildAgain ==
    /\ caller = "build"
    /\ pc \in {"done", "crashed"}
    /\ runs < MaxRuns
    /\ product_names' \in BuildLists
    /\ pc' = "makedirs"
    /\ prev_ok' = (pc = "done")
    /\ prev_names' = product_names
    /\ prev_today' = IF today = NoDate THEN prev_today ELSE today
    /\ runs' = runs + 1
    /\ posts_info' = <<>>
    /\ pos' = 0
    /\ uncaught' = "none"
    /\ fs0' = fs
    /\ today' = NoDate
    /\ UNCHANGED <<installed, requests, BeautifulSoup, caller, max_items, gets,
                   response, soup, names, err, build_calls, docs_exists, fs, edits,
                   text, slug_out>>

-----------------------------------------------------------------------------
(* slugify called alone *)

SlugifyCall ==
    /\ pc = "slugify"
    /\ slug_out' = slugify(text)
    /\ pc' = "slugified"
    /\ UNCHANGED <<installed, requests, BeautifulSoup, caller, max_items, gets, response, soup,
                   names, err, product_names, build_calls, docs_exists, fs, today,
                   posts_info, pos, uncaught, fs0, prev_ok, prev_names, prev_today,
                   runs, edits, text>>

-----------------------------------------------------------------------------
(* Specifications *)

\* the values of the variables a specification does not choose
Fresh ==
    /\ gets = 0
    /\ response = NoResponse
    /\ soup = NoPage
    /\ names = <<>>
    /\ err = "none"
    /\ build_calls = 0
    /\ docs_exists = FALSE
    /\ fs = EmptyDir
    /\ today = NoDate
    /\ posts_info = <<>>
    /\ pos = 0
    /\ uncaught = "none"
    /\ fs0 = EmptyDir
    /\ prev_ok = FALSE
    /\ prev_names = <<>>
    /\ prev_today = NoDate
    /\ runs = 1
    /\ edits = 0
    /\ slug_out = <<>>

\* the script is run in a directory without docs
Init ==
    /\ installed \in [requests : BOOLEAN, bs4 : BOOLEAN]
    /\ requests = ImportGuard(installed.requests, installed.bs4)
    /\ BeautifulSoup = ImportGuard(installed.requests, installed.bs4)
    /\ pc = "main"
    /\ caller = "main"
    /\ max_items = 0
    /\ product_names = <<>>
    /\ text = <<>>
    /\ Fresh

Fetch ==
    \/ FetchImportError
    \/ FetchGetRaises
    \/ FetchGetResponds
    \/ FetchHTTPError
    \/ FetchParse
    \/ FetchParseError
    \/ FetchSelect

Next ==
    \/ MainTry
    \/ Fetch
    \/ MainFetched
    \/ MainExcept
    \/ MainBuildSite
    \/ BuildMakedirs
    \/ BuildStylesheet
    \/ BuildProduct
    \/ BuildIndex
    \/ BuildOSError
    \/ EditFile
    \/ Rerun

Spec == Init /\ [][Next]_vars

\* build_site called alone with any lists, starting in a directory without docs
InitBuild ==
    /\ installed = [requests |-> FALSE, bs4 |-> FALSE]
    /\ requests = FALSE
    /\ BeautifulSoup = FALSE
    /\ pc = "makedirs"
    /\ caller = "build"
    /\ max_items = 0
    /\ product_names \in BuildLists
    /\ text = <<>>
    /\ Fresh

NextBuild ==
    \/ BuildMakedirs
    \/ BuildStylesheet
    \/ BuildProduct
    \/ BuildIndex
    \/ BuildOSError
    \/ EditFile
    \/ BuildAgain

SpecBuild == InitBuild /\ [][NextBuild]_vars

\* fetch_best_sellers called alone with any max_items
InitFetch ==
    /\ installed \in [requests : BOOLEAN, bs4 : BOOLEAN]
    /\ requests = ImportGuard(installed.requests, installed.bs4)
    /\ BeautifulSoup = ImportGuard(installed.requests, installed.bs4)
    /\ pc = "fetch"
    /\ caller = "fetch"
    /\ max_items \in 0..MaxItemsArg
    /\ product_names = <<>>
    /\ text = <<>>
    /\ Fresh

SpecFetch == InitFetch /\ [][Fetch]_vars

\* slugify called alone with any text
InitSlug ==
    /\ installed = [requests |-> FALSE, bs4 |-> FALSE]
    /\ requests = FALSE
    /\ BeautifulSoup = FALSE
    /\ pc = "slugify"
    /\ caller = "slugify"
    /\ max_items = 0
    /\ product_names = <<>>
    /\ text \in SlugTexts
    /\ Fresh

SpecSlug == InitSlug /\ [][SlugifyCall]_vars

-----------------------------------------------------------------------------
(* Properties of slugify (SpecSlug) *)

\* the k-th smallest element of a set of positions
Nth(S, k) == CHOOSE q \in S : Cardinality({r \in S : r <= q}) = k

\* the positions of t that hold a character of [a-z0-9] once lowercased
KeptPositions(t) == {k \in 1..Len(t) : IsSlugChar(LowerChar(t[k]))}

\* the positions of a slug that hold no hyphen
LetterPositions(s) == {k \in 1..Len(s) : s[k] # "-"}

-----------------------------------------------------------------------------
(* Properties of fetch_best_sellers (SpecFetch) *)

\* the positions of s holding a non-empty text that no earlier position holds
FirstSeen(s) == {k \in 1..Len(s) : s[k] # <<>> /\ \A j \in 1..(k - 1) : s[j] # s[k]}

\* the non-empty texts of s without repetitions, in the order of first appearance
Distinct(s) == [i \in 1..Cardinality(FirstSeen(s)) |-> s[Nth(FirstSeen(s), i)]]

\* the first n elements of s
Take(s, n) == SubSeq(s, 1, IF n < Len(s) THEN n ELSE Len(s))

\* the texts of the first n selectors, in priority order then document order
TextsUpTo(n) ==
    IF n = 0 THEN <<>>
    ELSE IF n = 1 THEN soup[selectors[1]]
    ELSE IF n = 2 THEN soup[selectors[1]] \o soup[selectors[2]]
    ELSE soup[selectors[1]] \o soup[selectors[2]] \o soup[selectors[3]]

\* C4 as stated: the returned list has at most max_items elements, pairwise
\* distinct and non-empty.
C4_AtMostMaxItems ==
    pc = "returned" =>
        /\ Len(names) <= max_items
        /\ \A j \in 1..Len(names) : names[j] # <<>>
        /\ \A j \in 1..Len(names), k \in 1..Len(names) : names[j] = names[k] => j = k

C9_SelectorFallback ==
    pc = "returned" =>
        LET all == Distinct(TextsUpTo(3))
        IN  /\ Len(names) <= Len(all)
            /\ names = Take(all, Len(names))
            /\ \A n \in 1..2 :
                  Len(names) > Len(Distinct(TextsUpTo(n))) =>
                      Len(Distinct(TextsUpTo(n))) < max_items
            /\ Len(names) < max_items => names = all
            /\ (soup[selectors[1]] = <<>> /\ soup[selectors[3]] = <<>>) =>
                  names = Take(Distinct(soup[selectors[2]]), max_items)

\* only the second selector matches, with a repeated text and more distinct
\* texts than max_items
C9_Witness ==
    /\ pc = "returned"
    /\ max_items = 1
    /\ soup[selectors[1]] = <<>>
    /\ soup[selectors[2]] = <<<<"b">>, <<"a">>>>
    /\ soup[selectors[3]] = <<>>
    /\ names = <<<<"b">>>>

-----------------------------------------------------------------------------
(* Properties of build_site (SpecBuild) *)

\* the file of the k-th product of the current call
ProductFile(k) == slugify(product_names[k]) \o DotHtml

\* C1 as stated: a product file that exists before a run has the same
\* content after the run.
C1_ExistingProductFilesKept ==
    pc = "done" =>
        \A k \in 1..Len(product_names) :
            Exists(fs0, ProductFile(k)) => fs[ProductFile(k)] = fs0[ProductFile(k)]

\* C2 as stated: a second run with the same list leaves every product file
\* unchanged and writes an index.html with the content the first run wrote.
C2_SecondRunSameList ==
    (pc = "done" /\ prev_ok /\ prev_names = product_names) =>
        /\ \A k \in 1..Len(product_names) :
              /\ Exists(fs0, ProductFile(k))
              /\ fs[ProductFile(k)] = fs0[ProductFile(k)]
        /\ Exists(fs0, index_path)
        /\ fs[index_path] = fs0[index_path]

\* C2 amended: a second run with the same list on the same UTC date leaves
\* every file of docs as the first run left it, index.html included.
C2_SecondRunSameListSameDate ==
    (pc = "done" /\ prev_ok /\ prev_names = product_names /\ prev_today = today) =>
        /\ \A k \in 1..Len(product_names) :
              /\ Exists(fs0, ProductFile(k))
              /\ fs[ProductFile(k)] = fs0[ProductFile(k)]
        /\ Exists(fs0, index_path)
        /\ fs[index_path] = fs0[index_path]
        /\ fs = fs0

\* a second run with the same two products on the same date has completed
C2_Witness ==
    /\ pc = "done"
    /\ prev_ok
    /\ prev_names = product_names
    /\ prev_today = today
    /\ Len(product_names) = 2
    /\ runs = 2

\* C5: after a completed run index.html lists one entry per element of the
\* input, in input order: the link <slug>.html, the label "<product> Review"
\* and the date of this run, also for a product whose file existed already.
C5_IndexListsInput ==
    pc = "done" =>
        /\ Exists(fs, index_path)
        /\ fs[index_path].kind = "index"
        /\ Len(fs[index_path].items) = Len(product_names)
        /\ \A k \in 1..Len(product_names) :
              /\ fs[index_path].items[k].href = slugify(product_names[k]) \o DotHtml
              /\ fs[index_path].items[k].label = product_names[k] \o <<" ", "R", "e", "v", "i", "e", "w">>
              /\ fs[index_path].items[k].date = today

\* a run has completed over an older index, with a product whose file existed
\* before the run and was kept
C5_Witness ==
    /\ pc = "done"
    /\ Exists(fs0, index_path)
    /\ fs0[index_path] # fs[index_path]
    /\ product_names = <<<<"a">>, <<"A", "!">>>>
    /\ Exists(fs0, <<"a", ".", "h", "t", "m", "l">>)
    /\ fs[<<"a", ".", "h", "t", "m", "l">>] = Custom

\* C6: build_site writes styles.css when it does not exist, and no step of
\* any run changes a stylesheet that exists.
C6_StylesheetFirstRunWins ==
    /\ [](pc \in {"loop", "done"} => Exists(fs, style_path))
    /\ []((pc \in {"loop", "done"} /\ ~Exists(fs0, style_path)) => fs[style_path] = CssContent)
    /\ [][(Exists(fs, style_path) /\ edits' = edits) =>
             (Exists(fs', style_path) /\ fs'[style_path] = fs[style_path])]_vars

\* a run has completed over a stylesheet edited by hand
C6_Witness ==
    /\ pc = "done"
    /\ Exists(fs0, style_path)
    /\ fs0[style_path] = Custom
    /\ fs[style_path] = Custom

\* C10 as stated: after a completed run every link target of index.html
\* exists, no file was deleted, and a file created by this run for a slug
\* that two products of the list share holds the rendering of the first of
\* them.
C10_LinksExistFirstCreatorWins ==
    pc = "done" =>
        /\ \A k \in 1..Len(fs[index_path].items) : Exists(fs, fs[index_path].items[k].href)
        /\ DOMAIN fs0 \subseteq DOMAIN fs
        /\ \A j \in 1..Len(product_names), k \in 1..Len(product_names) :
              (/\ j < k
               /\ product_names[j] # product_names[k]
               /\ ProductFile(j) = ProductFile(k)
               /\ ~Exists(fs0, ProductFile(j))) =>
                  fs[ProductFile(j)] =
                      generate_post_html(product_names[j] \o ReviewSuffix, today,
                                         product_names[j], slugify(product_names[j]))

-----------------------------------------------------------------------------
(* Properties of main (Spec) *)

\* C3: build_site is called exactly once per run, after the fetch attempt,
\* with the fetched list, or with the three sample products in their order
\* when fetch_best_sellers raised; no fetch error ends the process.
C3_FallbackToSamples ==
    /\ build_calls <= 1
    /\ pc \in {"main", "fetch", "raise_for_status", "select", "returned", "raised",
               "call_build_site"} => build_calls = 0
    /\ pc \in {"makedirs", "stylesheet", "loop", "done"} =>
          /\ build_calls = 1
          /\ err = "none" => product_names = names
          /\ err # "none" =>
                product_names =
                    << <<"S", "a", "m", "p", "l", "e", " ", "P", "r", "o", "d", "u", "c", "t", " ", "A">>,
                       <<"S", "a", "m", "p", "l", "e", " ", "P", "r", "o", "d", "u", "c", "t", " ", "B">>,
                       <<"S", "a", "m", "p", "l", "e", " ", "P", "r", "o", "d", "u", "c", "t", " ", "C">> >>
    /\ pc = "crashed" => (build_calls = 1 /\ uncaught = "OSError")
    /\ uncaught \in {"none", "OSError"}

\* a run whose fetch failed with an HTTP error status has built the sample site
C3_Witness ==
    /\ pc = "done"
    /\ err = "HTTPError"
    /\ product_names = SampleProducts
    /\ Exists(fs, <<"s", "a", "m", "p", "l", "e", "-", "p", "r", "o", "d", "u", "c", "t",
                    "-", "b", ".", "h", "t", "m", "l">>)

====
